---- MODULE Spec2Model ----
(***************************************************************************)
(* Model of the two diagram generator scripts of Samstraumr:               *)
(*   bin/c4_diagrams.py            (script A, C4DiagramGenerator)          *)
(*   bin/port_interfaces_diagram.py (script B,                             *)
(*                                   PortInterfaceDiagramGenerator)        *)
(* A run is one Python process: the module is imported (which probes the   *)
(* rendering library), and then either main() runs or a client uses the    *)
(* generator class directly.  The filesystem and the rendering library are *)
(* the environment: directory creation and rendering may fail.             *)
(***************************************************************************)
EXTENDS Integers, Sequences, FiniteSets, TLC

VARIABLES
    pc,                  \* position of the run
    script,              \* "A" (c4_diagrams.py) or "B" (port_interfaces_diagram.py)
    mode,                \* "main": the script's main() runs; "api": a client drives the class
    diagrams_available,  \* module global set by the import block
    argv,                \* the command line of a main run
    args,                \* the namespace returned by parser.parse_args()
    request,             \* the arguments of the last constructor call
    generator,           \* the generator object, NoGenerator before construction
    fs_dirs,             \* directories that exist (paths relative to the cwd)
    fs_files,            \* image files written by the rendering library
    log,                 \* everything print()ed so far, in order
    ret,                 \* return value of the last generate_* call
    files,               \* the local list "files" of generate_all, then its result
    batchIdx,            \* number of diagram kinds generate_all has gone through
    batchMark,           \* length of the log when generate_all was entered
    calls,               \* generate methods invoked by main() or by the client
    attempts,            \* every generate_* invocation, in order: the method,
                         \* what the rendering library did, what was returned
    built,               \* the diagram specification constructed last
    nopen,               \* number of Diagram contexts opened
    raised,              \* exception that escaped the last operation, "None" if none
    exitCode,            \* process exit status, -1 while running
    nops                 \* number of client operations so far

vars == <<pc, script, mode, diagrams_available, argv, args, request, generator,
          fs_dirs, fs_files, log, ret, files, batchIdx, batchMark, calls,
          attempts, built, nopen, raised, exitCode, nops>>

----------------------------------------------------------------------------
(* Bounds *)

\* client operations (constructions, generate calls) in one api run
MaxOps == 2

----------------------------------------------------------------------------
(* Strings.  A string is a sequence of tokens; a token is one character,   *)
(* or a literal chunk of the source that contains neither "." nor "/" nor  *)
(* an upper-case letter that matters.  The empty string is <<>>.           *)

EmptyStr == <<>>

UpperChars == <<"A","B","C","D","E","F","G","H","I","J","K","L","M",
                "N","O","P","Q","R","S","T","U","V","W","X","Y","Z">>
LowerChars == <<"a","b","c","d","e","f","g","h","i","j","k","l","m",
                "n","o","p","q","r","s","t","u","v","w","x","y","z">>

LowerChar(c) ==
    IF \E i \in 1..Len(UpperChars) : UpperChars[i] = c
    THEN LowerChars[CHOOSE i \in 1..Len(UpperChars) : UpperChars[i] = c]
    ELSE c

\* str.lower()
Lower(s) == [i \in 1..Len(s) |-> LowerChar(s[i])]

PNG == <<"p","n","g">>
SVG == <<"s","v","g">>
PDF == <<"p","d","f">>
LOW == <<"l","o","w">>
MEDIUM == <<"m","e","d","i","u","m">>
HIGH == <<"h","i","g","h">>

\* the tuples of the two membership tests of __init__
FORMATS == {PNG, SVG, PDF}
DETAIL_LEVELS == {LOW, MEDIUM, HIGH}

\* bool(s) of a string
Truthy(s) == s # EmptyStr

----------------------------------------------------------------------------
(* Console output *)

Msg(tag, label, text) == [tag |-> tag, label |-> label, text |-> text]

\* the five lines printed by the except ImportError block
ImportWarning ==
    << Msg("ImportWarning", "", <<"Warning: diagrams package not available. Please install it with:">>),
       Msg("ImportWarning", "", <<"  pip install diagrams">>),
       Msg("ImportWarning", "", <<"And make sure graphviz is installed:">>),
       Msg("ImportWarning", "", <<"  apt-get install graphviz  # Ubuntu/Debian">>),
       Msg("ImportWarning", "", <<"  brew install graphviz      # macOS">>) >>

----------------------------------------------------------------------------
(* Paths and the filesystem.  A directory path is the sequence of its      *)
(* components relative to the current directory; <<>> is "." itself.       *)

\* pathlib.Path(output_dir).parts: the string is split at "/", empty and
\* "." components are dropped, so Path("") and Path(".") are the cwd.
RECURSIVE Path(_)
Path(s) ==
    IF s = <<>> THEN <<>>
    ELSE IF s[1] \in {"/", "."} THEN Path(Tail(s))
    ELSE <<s[1]>> \o Path(Tail(s))

\* the literal "docs/diagrams"
DEFAULT_DIR == <<"docs", "/", "diagrams">>

Prefixes(p) == { SubSeq(p, 1, n) : n \in 1..Len(p) }

DirExists(p, dirs) == p = <<>> \/ p \in dirs

\* a mkdir whose OSError is swallowed
Mkdir_Swallowed(p, dirs, osOk) ==
    [raised |-> FALSE,
     dirs |-> IF DirExists(p, dirs) \/ ~osOk THEN dirs ELSE dirs \cup Prefixes(p)]

\* a mkdir without exist_ok: an existing directory raises FileExistsError
Mkdir_NoExistOk(p, dirs, osOk) ==
    IF DirExists(p, dirs) THEN [raised |-> TRUE, dirs |-> dirs]
    ELSE IF ~osOk THEN [raised |-> TRUE, dirs |-> dirs]
    ELSE [raised |-> FALSE, dirs |-> dirs \cup Prefixes(p)]

\* Path.mkdir(parents=True, exist_ok=True).  An existing directory is left
\* alone; otherwise the directory and its missing ancestors are created,
\* unless the operating system refuses (osOk = FALSE), which raises OSError.
Mkdir(p, dirs, osOk) ==
    IF DirExists(p, dirs) THEN [raised |-> FALSE, dirs |-> dirs]
    ELSE IF ~osOk THEN [raised |-> TRUE, dirs |-> dirs]
    ELSE [raised |-> FALSE, dirs |-> dirs \cup Prefixes(p)]

RECURSIVE JoinSlash(_)
JoinSlash(p) ==
    IF p = <<>> THEN <<>>
    ELSE IF Len(p) = 1 THEN <<p[1]>>
    ELSE <<p[1], "/">> \o JoinSlash(Tail(p))

\* output_dir / name
PathJoin(dir, name) == [dir |-> dir, name |-> name]

\* str(path)
PathStr(f) ==
    IF f.dir = <<>> THEN f.name ELSE JoinSlash(f.dir) \o <<"/">> \o f.name

\* index of the last "." of a file name that starts a suffix, 0 if none
SuffixDot(name) ==
    LET dots == { i \in 2..(Len(name) - 1) : name[i] = "." }
    IN IF dots = {} THEN 0 ELSE CHOOSE i \in dots : \A j \in dots : j <= i

\* a with_suffix that leaves the suffix in place
WithSuffixEmpty_Keeps(f) == f

\* path.with_suffix("")
WithSuffixEmpty(f) ==
    IF SuffixDot(f.name) = 0 THEN f
    ELSE [dir |-> f.dir, name |-> SubSeq(f.name, 1, SuffixDot(f.name) - 1)]

----------------------------------------------------------------------------
(* Constructors *)

NoGenerator == [cls |-> "None"]

\* a constructor that warns about a rejected format but keeps it
C4DiagramGenerator_KeepsRejected(output_dir, output_format, dirs, osOk) ==
    LET lowered == Lower(output_format)
        bad == lowered \notin FORMATS
        md  == Mkdir(Path(output_dir), dirs, osOk)
    IN [printed |-> IF bad THEN <<Msg("UnsupportedFormat", "png", output_format)>>
                    ELSE <<>>,
        raised  |-> md.raised,
        dirs    |-> md.dirs,
        self    |-> IF md.raised THEN NoGenerator
                    ELSE [cls |-> "C4DiagramGenerator",
                          output_format |-> lowered,
                          output_dir |-> Path(output_dir)]]

\* C4DiagramGenerator.__init__
C4DiagramGenerator(output_dir, output_format, dirs, osOk) ==
    LET lowered == Lower(output_format)
        bad == lowered \notin FORMATS
        md  == Mkdir(Path(output_dir), dirs, osOk)
    IN [printed |-> IF bad THEN <<Msg("UnsupportedFormat", "png", output_format)>>
                    ELSE <<>>,
        raised  |-> md.raised,
        dirs    |-> md.dirs,
        self    |-> IF md.raised THEN NoGenerator
                    ELSE [cls |-> "C4DiagramGenerator",
                          output_format |-> IF bad THEN PNG ELSE lowered,
                          output_dir |-> Path(output_dir)]]

\* a constructor that looks at the detail level only when the format is fine
PortInterfaceDiagramGenerator_Elif(output_dir, output_format, detail_level, dirs, osOk) ==
    LET lowered  == Lower(output_format)
        bad      == lowered \notin FORMATS
        dlowered == Lower(detail_level)
        dbad     == ~bad /\ dlowered \notin DETAIL_LEVELS
        md       == Mkdir(Path(output_dir), dirs, osOk)
    IN [printed |-> (IF bad THEN <<Msg("UnsupportedFormat", "svg", output_format)>>
                     ELSE <<>>)
                    \o (IF dbad THEN <<Msg("UnsupportedDetail", "medium", detail_level)>>
                        ELSE <<>>),
        raised  |-> md.raised,
        dirs    |-> md.dirs,
        self    |-> IF md.raised THEN NoGenerator
                    ELSE [cls |-> "PortInterfaceDiagramGenerator",
                          output_format |-> IF bad THEN SVG ELSE lowered,
                          detail_level |-> IF dbad THEN MEDIUM ELSE dlowered,
                          output_dir |-> Path(output_dir)]]

\* a constructor that compares the values as they were given, in their own
\* letter case
PortInterfaceDiagramGenerator_CaseSensitive(output_dir, output_format, detail_level, dirs, osOk) ==
    LET lowered  == output_format
        bad      == lowered \notin FORMATS
        dlowered == detail_level
        dbad     == dlowered \notin DETAIL_LEVELS
        md       == Mkdir(Path(output_dir), dirs, osOk)
    IN [printed |-> (IF bad THEN <<Msg("UnsupportedFormat", "svg", output_format)>>
                     ELSE <<>>)
                    \o (IF dbad THEN <<Msg("UnsupportedDetail", "medium", detail_level)>>
                        ELSE <<>>),
        raised  |-> md.raised,
        dirs    |-> md.dirs,
        self    |-> IF md.raised THEN NoGenerator
                    ELSE [cls |-> "PortInterfaceDiagramGenerator",
                          output_format |-> IF bad THEN SVG ELSE lowered,
                          detail_level |-> IF dbad THEN MEDIUM ELSE dlowered,
                          output_dir |-> Path(output_dir)]]

\* PortInterfaceDiagramGenerator.__init__
PortInterfaceDiagramGenerator(output_dir, output_format, detail_level, dirs, osOk) ==
    LET lowered  == Lower(output_format)
        bad      == lowered \notin FORMATS
        dlowered == Lower(detail_level)
        dbad     == dlowered \notin DETAIL_LEVELS
        md       == Mkdir(Path(output_dir), dirs, osOk)
    IN [printed |-> (IF bad THEN <<Msg("UnsupportedFormat", "svg", output_format)>>
                     ELSE <<>>)
                    \o (IF dbad THEN <<Msg("UnsupportedDetail", "medium", detail_level)>>
                        ELSE <<>>),
        raised  |-> md.raised,
        dirs    |-> md.dirs,
        self    |-> IF md.raised THEN NoGenerator
                    ELSE [cls |-> "PortInterfaceDiagramGenerator",
                          output_format |-> IF bad THEN SVG ELSE lowered,
                          detail_level |-> IF dbad THEN MEDIUM ELSE dlowered,
                          output_dir |-> Path(output_dir)]]

----------------------------------------------------------------------------
(* Diagram specifications: what the body of each "with Diagram(...)" block *)
(* declares.  A node is named by the variable it is bound to (by its label *)
(* when it is bound to none); "a >> b" is the edge <<a, b>> and "a << b"   *)
(* the edge <<b, a>>.                                                      *)

Node(id, label, icon, cluster) ==
    [id |-> id, label |-> label, icon |-> icon, cluster |-> cluster]

NoSpec == [title |-> ""]

\* src/bin/c4_diagrams.py:75-97 C4DiagramGenerator.generate_context_diagram
context_diagram_spec ==
    [title |-> "Samstraumr System Context",
     direction |-> "LR",
     curvestyle |-> "",
     clusters |-> <<
         <<"Samstraumr Framework">>,
         <<"External Systems">> >>,
     nodes |-> <<
         Node("users", "Development Teams", "Users", <<>>),
         Node("core", "Samstraumr Core", "Java", <<"Samstraumr Framework">>),
         Node("api", "API", "Java", <<"Samstraumr Framework">>),
         Node("db", "Event Store", "PostgreSQL", <<"Samstraumr Framework">>),
         Node("vcs", "Version Control", "Server", <<"External Systems">>),
         Node("ci", "CI/CD System", "Server", <<"External Systems">>),
         Node("docs", "Document Repository", "Storage", <<"External Systems">>) >>,
     edges |-> <<
         <<"users", "api">>,
         <<"api", "core">>,
         <<"core", "db">>,
         <<"users", "core">>,
         <<"core", "vcs">>,
         <<"core", "docs">>,
         <<"api", "ci">> >>]

\* src/bin/c4_diagrams.py:119-150 C4DiagramGenerator.generate_container_diagram
container_diagram_spec ==
    [title |-> "Samstraumr Container Diagram",
     direction |-> "LR",
     curvestyle |-> "",
     clusters |-> <<
         <<"Samstraumr Framework">>,
         <<"Samstraumr Framework", "Core Framework">>,
         <<"Samstraumr Framework", "Orchestration">>,
         <<"Samstraumr Framework", "Infrastructure">>,
         <<"External Systems">> >>,
     nodes |-> <<
         Node("dev", "Developer", "User", <<>>),
         Node("tubes", "Tubes", "Java", <<"Samstraumr Framework", "Core Framework">>),
         Node("components", "Components", "Java", <<"Samstraumr Framework", "Core Framework">>),
         Node("identity", "Identity", "Java", <<"Samstraumr Framework", "Core Framework">>),
         Node("machine", "Machine", "Java", <<"Samstraumr Framework", "Orchestration">>),
         Node("composite", "Composite", "Java", <<"Samstraumr Framework", "Orchestration">>),
         Node("events", "Event Dispatcher", "Java", <<"Samstraumr Framework", "Infrastructure">>),
         Node("db", "Event Store", "PostgreSQL", <<"Samstraumr Framework", "Infrastructure">>),
         Node("ci_cd", "CI/CD Pipeline", "Server", <<"External Systems">>) >>,
     edges |-> <<
         <<"dev", "tubes">>,
         <<"tubes", "events">>,
         <<"dev", "components">>,
         <<"components", "machine">>,
         <<"machine", "composite">>,
         <<"tubes", "identity">>,
         <<"components", "identity">>,
         <<"composite", "identity">>,
         <<"events", "db">>,
         <<"machine", "ci_cd">> >>]

\* src/bin/c4_diagrams.py:172-206 C4DiagramGenerator.generate_component_diagram
component_diagram_spec ==
    [title |-> "Samstraumr Component Diagram",
     direction |-> "LR",
     curvestyle |-> "",
     clusters |-> <<
         <<"Core Domain">>,
         <<"Orchestration">>,
         <<"Infrastructure">> >>,
     nodes |-> <<
         Node("tubes", "Tube", "Java", <<"Core Domain">>),
         Node("components", "Component", "Java", <<"Core Domain">>),
         Node("identifiers", "Identity", "Java", <<"Core Domain">>),
         Node("lifecycle", "Lifecycle", "Java", <<"Core Domain">>),
         Node("machine", "Machine", "Java", <<"Orchestration">>),
         Node("composite", "Composite", "Java", <<"Orchestration">>),
         Node("flow", "DataFlow", "Java", <<"Orchestration">>),
         Node("repo", "Repository", "Java", <<"Infrastructure">>),
         Node("events", "EventDispatcher", "Java", <<"Infrastructure">>),
         Node("logging", "Logger", "Java", <<"Infrastructure">>) >>,
     edges |-> <<
         <<"tubes", "identifiers">>,
         <<"components", "identifiers">>,
         <<"composite", "components">>,
         <<"machine", "components">>,
         <<"flow", "components">>,
         <<"composite", "repo">>,
         <<"machine", "repo">>,
         <<"events", "logging">>,
         <<"events", "repo">> >>]

\* src/bin/c4_diagrams.py:228-260 C4DiagramGenerator.generate_code_diagram
code_diagram_spec ==
    [title |-> "Samstraumr Code Diagram",
     direction |-> "TB",
     curvestyle |-> "",
     clusters |-> <<
         <<"Domain Model">>,
         <<"Domain Services">>,
         <<"Repositories">> >>,
     nodes |-> <<
         Node("tube", "Tube", "Java", <<"Domain Model">>),
         Node("component", "Component", "Java", <<"Domain Model">>),
         Node("identity", "Identity", "Java", <<"Domain Model">>),
         Node("state", "LifecycleState", "Java", <<"Domain Model">>),
         Node("tube_factory", "TubeFactory", "Java", <<"Domain Services">>),
         Node("component_factory", "ComponentFactory", "Java", <<"Domain Services">>),
         Node("machine_factory", "MachineFactory", "Java", <<"Domain Services">>),
         Node("composite_factory", "CompositeFactory", "Java", <<"Domain Services">>),
         Node("tube_repo", "TubeRepository", "Java", <<"Repositories">>),
         Node("component_repo", "ComponentRepository", "Java", <<"Repositories">>),
         Node("machine_repo", "MachineRepository", "Java", <<"Repositories">>) >>,
     edges |-> <<
         <<"tube_factory", "tube">>,
         <<"tube", "tube_repo">>,
         <<"component_factory", "component">>,
         <<"component", "component_repo">>,
         <<"machine_factory", "component">>,
         <<"component", "machine_repo">>,
         <<"composite_factory", "component">>,
         <<"tube", "state">>,
         <<"component", "state">>,
         <<"tube", "identity">>,
         <<"component", "identity">> >>]

\* src/bin/c4_diagrams.py:282-324 C4DiagramGenerator.generate_clean_architecture_diagram
clean_architecture_diagram_spec ==
    [title |-> "Samstraumr Clean Architecture",
     direction |-> "TB",
     curvestyle |-> "ortho",
     clusters |-> <<
         <<"Core Domain">>,
         <<"Use Cases">>,
         <<"Interface Adapters">>,
         <<"Interface Adapters", "Input Adapters">>,
         <<"Interface Adapters", "Output Adapters">>,
         <<"Frameworks & Drivers">>,
         <<"Frameworks & Drivers", "UI">>,
         <<"Frameworks & Drivers", "External Interfaces">> >>,
     nodes |-> <<
         Node("entity", "Entities", "Java", <<"Core Domain">>),
         Node("usecases", "Use Cases", "Java", <<"Use Cases">>),
         Node("controllers", "Controllers", "Java", <<"Interface Adapters", "Input Adapters">>),
         Node("presenters", "Presenters", "Java", <<"Interface Adapters", "Input Adapters">>),
         Node("gateways", "Gateways", "Java", <<"Interface Adapters", "Output Adapters">>),
         Node("repositories", "Repositories", "Java", <<"Interface Adapters", "Output Adapters">>),
         Node("web", "Web UI", "Spring", <<"Frameworks & Drivers", "UI">>),
         Node("cli", "CLI", "Java", <<"Frameworks & Drivers", "UI">>),
         Node("db", "Database", "PostgreSQL", <<"Frameworks & Drivers", "External Interfaces">>),
         Node("external_api", "External APIs", "Java", <<"Frameworks & Drivers", "External Interfaces">>) >>,
     edges |-> <<
         <<"web", "controllers">>,
         <<"cli", "controllers">>,
         <<"controllers", "usecases">>,
         <<"presenters", "usecases">>,
         <<"usecases", "entity">>,
         <<"repositories", "db">>,
         <<"gateways", "external_api">>,
         <<"usecases", "repositories">>,
         <<"usecases", "gateways">>,
         <<"presenters", "web">> >>]

\* src/bin/port_interfaces_diagram.py:86-203 PortInterfaceDiagramGenerator.generate_ports_component_diagram
ports_component_diagram_spec ==
    [title |-> "Samstraumr Port Interfaces Component Diagram",
     direction |-> "TB",
     curvestyle |-> "",
     clusters |-> <<
         <<"Domain Layer">>,
         <<"Application Layer">>,
         <<"Application Layer", "Services">>,
         <<"Application Layer", "Port Interfaces">>,
         <<"Infrastructure Layer">>,
         <<"Infrastructure Layer", "Adapters">>,
         <<"External Systems">>,
         <<"External Systems", "External Resources">> >>,
     nodes |-> <<
         Node("component", "Component", "Java", <<"Domain Layer">>),
         Node("identity", "Identity", "Java", <<"Domain Layer">>),
         Node("state", "State", "Java", <<"Domain Layer">>),
         Node("machine", "Machine", "Java", <<"Domain Layer">>),
         Node("composite", "Composite", "Java", <<"Domain Layer">>),
         Node("event", "DomainEvent", "Java", <<"Domain Layer">>),
         Node("component_svc", "ComponentService", "Java", <<"Application Layer", "Services">>),
         Node("notification_svc", "NotificationService", "Java", <<"Application Layer", "Services">>),
         Node("cache_svc", "CacheService", "Java", <<"Application Layer", "Services">>),
         Node("file_svc", "FileSystemService", "Java", <<"Application Layer", "Services">>),
         Node("validation_svc", "ValidationService", "Java", <<"Application Layer", "Services">>),
         Node("persistence_svc", "PersistenceService", "Java", <<"Application Layer", "Services">>),
         Node("event_svc", "EventService", "Java", <<"Application Layer", "Services">>),
         Node("security_svc", "SecurityService", "Java", <<"Application Layer", "Services">>),
         Node("messaging_svc", "MessagingService", "Java", <<"Application Layer", "Services">>),
         Node("task_svc", "TaskExecutionService", "Java", <<"Application Layer", "Services">>),
         Node("config_svc", "ConfigurationService", "Java", <<"Application Layer", "Services">>),
         Node("notification_port", "NotificationPort", "Java", <<"Application Layer", "Port Interfaces">>),
         Node("cache_port", "CachePort", "Java", <<"Application Layer", "Port Interfaces">>),
         Node("file_port", "FileSystemPort", "Java", <<"Application Layer", "Port Interfaces">>),
         Node("validation_port", "ValidationPort", "Java", <<"Application Layer", "Port Interfaces">>),
         Node("persistence_port", "PersistencePort", "Java", <<"Application Layer", "Port Interfaces">>),
         Node("event_pub_port", "EventPublisherPort", "Java", <<"Application Layer", "Port Interfaces">>),
         Node("dataflow_port", "DataFlowEventPort", "Java", <<"Application Layer", "Port Interfaces">>),
         Node("security_port", "SecurityPort", "Java", <<"Application Layer", "Port Interfaces">>),
         Node("messaging_port", "MessagingPort", "Java", <<"Application Layer", "Port Interfaces">>),
         Node("task_port", "TaskExecutionPort", "Java", <<"Application Layer", "Port Interfaces">>),
         Node("config_port", "ConfigurationPort", "Java", <<"Application Layer", "Port Interfaces">>),
         Node("template_port", "TemplatePort", "Java", <<"Application Layer", "Port Interfaces">>),
         Node("storage_port", "StoragePort", "Java", <<"Application Layer", "Port Interfaces">>),
         Node("comp_repo_port", "ComponentRepository", "Java", <<"Application Layer", "Port Interfaces">>),
         Node("notification_adapter", "NotificationAdapter", "Java", <<"Infrastructure Layer", "Adapters">>),
         Node("cache_adapter", "InMemoryCacheAdapter", "Java", <<"Infrastructure Layer", "Adapters">>),
         Node("file_adapter", "StandardFileSystemAdapter", "Java", <<"Infrastructure Layer", "Adapters">>),
         Node("validation_adapter", "ValidationAdapter", "Java", <<"Infrastructure Layer", "Adapters">>),
         Node("persistence_adapter", "InMemoryPersistenceAdapter", "Java", <<"Infrastructure Layer", "Adapters">>),
         Node("event_adapter", "EventPublisherAdapter", "Java", <<"Infrastructure Layer", "Adapters">>),
         Node("event_dispatcher", "InMemoryEventDispatcher", "Java", <<"Infrastructure Layer", "Adapters">>),
         Node("security_adapter", "SecurityAdapter", "Java", <<"Infrastructure Layer", "Adapters">>),
         Node("messaging_adapter", "InMemoryMessagingAdapter", "Java", <<"Infrastructure Layer", "Adapters">>),
         Node("task_adapter", "ThreadPoolTaskExecutionAdapter", "Java", <<"Infrastructure Layer", "Adapters">>),
         Node("config_adapter", "ConfigurationAdapter", "Java", <<"Infrastructure Layer", "Adapters">>),
         Node("template_adapter", "FreemarkerTemplateAdapter", "Java", <<"Infrastructure Layer", "Adapters">>),
         Node("storage_adapter", "InMemoryStorageAdapter", "Java", <<"Infrastructure Layer", "Adapters">>),
         Node("comp_repo_adapter", "InMemoryComponentRepository", "Java", <<"Infrastructure Layer", "Adapters">>),
         Node("database", "Database", "PostgreSQL", <<"External Systems", "External Resources">>),
         Node("file_system", "File System", "Storage", <<"External Systems", "External Resources">>),
         Node("email_server", "Email Server", "Server", <<"External Systems", "External Resources">>),
         Node("sms_gateway", "SMS Gateway", "Server", <<"External Systems", "External Resources">>),
         Node("message_bus", "Message Bus", "Kafka", <<"External Systems", "External Resources">>),
         Node("monitoring", "Monitoring", "Grafana", <<"External Systems", "External Resources">>) >>,
     edges |-> <<
         <<"component", "identity">>,
         <<"component", "state">>,
         <<"machine", "component">>,
         <<"composite", "component">>,
         <<"component_svc", "component">>,
         <<"component_svc", "machine">>,
         <<"component_svc", "composite">>,
         <<"notification_svc", "notification_port">>,
         <<"cache_svc", "cache_port">>,
         <<"file_svc", "file_port">>,
         <<"validation_svc", "validation_port">>,
         <<"persistence_svc", "persistence_port">>,
         <<"event_svc", "event_pub_port">>,
         <<"event_svc", "dataflow_port">>,
         <<"security_svc", "security_port">>,
         <<"messaging_svc", "messaging_port">>,
         <<"task_svc", "task_port">>,
         <<"config_svc", "config_port">>,
         <<"notification_adapter", "notification_port">>,
         <<"cache_adapter", "cache_port">>,
         <<"file_adapter", "file_port">>,
         <<"validation_adapter", "validation_port">>,
         <<"persistence_adapter", "persistence_port">>,
         <<"event_adapter", "event_pub_port">>,
         <<"event_dispatcher", "dataflow_port">>,
         <<"security_adapter", "security_port">>,
         <<"messaging_adapter", "messaging_port">>,
         <<"task_adapter", "task_port">>,
         <<"config_adapter", "config_port">>,
         <<"template_adapter", "template_port">>,
         <<"storage_adapter", "storage_port">>,
         <<"comp_repo_adapter", "comp_repo_port">>,
         <<"notification_adapter", "email_server">>,
         <<"notification_adapter", "sms_gateway">>,
         <<"file_adapter", "file_system">>,
         <<"persistence_adapter", "database">>,
         <<"event_adapter", "message_bus">>,
         <<"event_dispatcher", "message_bus">> >>]

\* src/bin/port_interfaces_diagram.py:225-264 PortInterfaceDiagramGenerator.generate_ports_integration_diagram
ports_integration_diagram_spec ==
    [title |-> "Samstraumr Port Integration Patterns",
     direction |-> "TB",
     curvestyle |-> "",
     clusters |-> <<
         <<"Integration Services">> >>,
     nodes |-> <<
         Node("notification_port", "NotificationPort", "Java", <<>>),
         Node("cache_port", "CachePort", "Java", <<>>),
         Node("file_port", "FileSystemPort", "Java", <<>>),
         Node("validation_port", "ValidationPort", "Java", <<>>),
         Node("persistence_port", "PersistencePort", "Java", <<>>),
         Node("event_pub_port", "EventPublisherPort", "Java", <<>>),
         Node("security_port", "SecurityPort", "Java", <<>>),
         Node("cache_file_svc", "CachingFileService", "Java", <<"Integration Services">>),
         Node("event_notif_svc", "EventNotificationService", "Java", <<"Integration Services">>),
         Node("validation_persist_svc", "ValidationPersistenceService", "Java", <<"Integration Services">>),
         Node("security_file_svc", "SecureFileService", "Java", <<"Integration Services">>) >>,
     edges |-> <<
         <<"cache_port", "cache_file_svc">>,
         <<"file_port", "cache_file_svc">>,
         <<"event_pub_port", "event_notif_svc">>,
         <<"event_notif_svc", "notification_port">>,
         <<"validation_port", "validation_persist_svc">>,
         <<"validation_persist_svc", "persistence_port">>,
         <<"security_port", "security_file_svc">>,
         <<"security_file_svc", "file_port">> >>]

\* src/bin/port_interfaces_diagram.py:286-337 generate_detailed_port_diagram,
\* the part declared at every detail level
detailed_port_core ==
    [title |-> "Samstraumr Detailed Port Interfaces",
     direction |-> "TB",
     curvestyle |-> "",
     clusters |-> <<
         <<"Core Port Interfaces">>,
         <<"Core Port Interfaces", "NotificationPort">>,
         <<"Core Port Interfaces", "NotificationPort", "Methods">>,
         <<"Core Port Interfaces", "CachePort">>,
         <<"Core Port Interfaces", "CachePort", "Methods">>,
         <<"Core Port Interfaces", "FileSystemPort">>,
         <<"Core Port Interfaces", "FileSystemPort", "Methods">>,
         <<"Core Port Interfaces", "ValidationPort">>,
         <<"Core Port Interfaces", "ValidationPort", "Methods">>,
         <<"Core Port Interfaces", "PersistencePort">>,
         <<"Core Port Interfaces", "PersistencePort", "Methods">> >>,
     nodes |-> <<
         Node("notification", "NotificationPort", "Java", <<"Core Port Interfaces", "NotificationPort">>),
         Node("send()", "send()", "Java", <<"Core Port Interfaces", "NotificationPort", "Methods">>),
         Node("sendBatch()", "sendBatch()", "Java", <<"Core Port Interfaces", "NotificationPort", "Methods">>),
         Node("sendAsync()", "sendAsync()", "Java", <<"Core Port Interfaces", "NotificationPort", "Methods">>),
         Node("register()", "register()", "Java", <<"Core Port Interfaces", "NotificationPort", "Methods">>),
         Node("checkStatus()", "checkStatus()", "Java", <<"Core Port Interfaces", "NotificationPort", "Methods">>),
         Node("cache", "CachePort", "Java", <<"Core Port Interfaces", "CachePort">>),
         Node("get()", "get()", "Java", <<"Core Port Interfaces", "CachePort", "Methods">>),
         Node("put()", "put()", "Java", <<"Core Port Interfaces", "CachePort", "Methods">>),
         Node("remove()", "remove()", "Java", <<"Core Port Interfaces", "CachePort", "Methods">>),
         Node("clear()", "clear()", "Java", <<"Core Port Interfaces", "CachePort", "Methods">>),
         Node("contains()", "contains()", "Java", <<"Core Port Interfaces", "CachePort", "Methods">>),
         Node("file_system", "FileSystemPort", "Java", <<"Core Port Interfaces", "FileSystemPort">>),
         Node("readFile()", "readFile()", "Java", <<"Core Port Interfaces", "FileSystemPort", "Methods">>),
         Node("writeFile()", "writeFile()", "Java", <<"Core Port Interfaces", "FileSystemPort", "Methods">>),
         Node("deleteFile()", "deleteFile()", "Java", <<"Core Port Interfaces", "FileSystemPort", "Methods">>),
         Node("listFiles()", "listFiles()", "Java", <<"Core Port Interfaces", "FileSystemPort", "Methods">>),
         Node("fileExists()", "fileExists()", "Java", <<"Core Port Interfaces", "FileSystemPort", "Methods">>),
         Node("validation", "ValidationPort", "Java", <<"Core Port Interfaces", "ValidationPort">>),
         Node("validate()", "validate()", "Java", <<"Core Port Interfaces", "ValidationPort", "Methods">>),
         Node("validateAll()", "validateAll()", "Java", <<"Core Port Interfaces", "ValidationPort", "Methods">>),
         Node("getViolations()", "getViolations()", "Java", <<"Core Port Interfaces", "ValidationPort", "Methods">>),
         Node("isValid()", "isValid()", "Java", <<"Core Port Interfaces", "ValidationPort", "Methods">>),
         Node("persistence", "PersistencePort", "Java", <<"Core Port Interfaces", "PersistencePort">>),
         Node("save()", "save()", "Java", <<"Core Port Interfaces", "PersistencePort", "Methods">>),
         Node("find()", "find()", "Java", <<"Core Port Interfaces", "PersistencePort", "Methods">>),
         Node("delete()", "delete()", "Java", <<"Core Port Interfaces", "PersistencePort", "Methods">>),
         Node("query()", "query()", "Java", <<"Core Port Interfaces", "PersistencePort", "Methods">>),
         Node("transaction()", "transaction()", "Java", <<"Core Port Interfaces", "PersistencePort", "Methods">>) >>,
     edges |-> << >>]

\* src/bin/port_interfaces_diagram.py:341-353, the body of
\* "if self.detail_level == "high""
standard_implementations ==
    [clusters |-> <<
         <<"Standard Implementations">> >>,
     nodes |-> <<
         Node("notif_impl", "NotificationAdapter", "Java", <<"Standard Implementations">>),
         Node("cache_impl", "InMemoryCacheAdapter", "Java", <<"Standard Implementations">>),
         Node("file_impl", "StandardFileSystemAdapter", "Java", <<"Standard Implementations">>),
         Node("validation_impl", "ValidationAdapter", "Java", <<"Standard Implementations">>),
         Node("persistence_impl", "InMemoryPersistenceAdapter", "Java", <<"Standard Implementations">>) >>,
     edges |-> <<
         <<"notif_impl", "notification">>,
         <<"cache_impl", "cache">>,
         <<"file_impl", "file_system">>,
         <<"validation_impl", "validation">>,
         <<"persistence_impl", "persistence">> >>]

\* a high-detail branch whose edges are drawn but whose nodes are not declared
Extended_EdgesOnly(spec, more) ==
    [spec EXCEPT !.edges = @ \o more.edges]

\* the diagram after the statements of a further block have run in it
Extended(spec, more) ==
    [spec EXCEPT !.clusters = @ \o more.clusters,
                 !.nodes = @ \o more.nodes,
                 !.edges = @ \o more.edges]

\* a branch that tests "is not low" instead of "is high"
detailed_port_diagram_spec_UnlessLow(detail_level) ==
    IF detail_level # LOW
    THEN Extended(detailed_port_core, standard_implementations)
    ELSE detailed_port_core

\* src/bin/port_interfaces_diagram.py:286-353 generate_detailed_port_diagram
detailed_port_diagram_spec(detail_level) ==
    IF detail_level = HIGH
    THEN Extended(detailed_port_core, standard_implementations)
    ELSE detailed_port_core

\* src/bin/port_interfaces_diagram.py:375-458 PortInterfaceDiagramGenerator.generate_clean_architecture_ports_diagram
clean_architecture_ports_diagram_spec ==
    [title |-> "Samstraumr Clean Architecture with Ports and Adapters",
     direction |-> "TB",
     curvestyle |-> "",
     clusters |-> <<
         <<"Core Domain Layer">>,
         <<"Application Layer">>,
         <<"Application Layer", "Input Ports">>,
         <<"Application Layer", "Output Ports">>,
         <<"Adapter Layer">>,
         <<"Adapter Layer", "Input Adapters">>,
         <<"Adapter Layer", "Output Adapters">>,
         <<"Infrastructure Layer">> >>,
     nodes |-> <<
         Node("entities", "Domain Entities", "Java", <<"Core Domain Layer">>),
         Node("value_objects", "Value Objects", "Java", <<"Core Domain Layer">>),
         Node("domain_services", "Domain Services", "Java", <<"Core Domain Layer">>),
         Node("use_cases", "Use Cases", "Java", <<"Application Layer">>),
         Node("component_port", "ComponentPort", "Java", <<"Application Layer", "Input Ports">>),
         Node("machine_port", "MachinePort", "Java", <<"Application Layer", "Input Ports">>),
         Node("composite_port", "CompositePort", "Java", <<"Application Layer", "Input Ports">>),
         Node("persistence_port", "PersistencePort", "Java", <<"Application Layer", "Output Ports">>),
         Node("notification_port", "NotificationPort", "Java", <<"Application Layer", "Output Ports">>),
         Node("event_port", "EventPublisherPort", "Java", <<"Application Layer", "Output Ports">>),
         Node("file_port", "FileSystemPort", "Java", <<"Application Layer", "Output Ports">>),
         Node("cache_port", "CachePort", "Java", <<"Application Layer", "Output Ports">>),
         Node("rest_adapter", "REST Adapter", "Java", <<"Adapter Layer", "Input Adapters">>),
         Node("cli_adapter", "CLI Adapter", "Java", <<"Adapter Layer", "Input Adapters">>),
         Node("messaging_adapter", "Messaging Adapter", "Java", <<"Adapter Layer", "Input Adapters">>),
         Node("persistence_adapter", "PersistenceAdapter", "Java", <<"Adapter Layer", "Output Adapters">>),
         Node("notification_adapter", "NotificationAdapter", "Java", <<"Adapter Layer", "Output Adapters">>),
         Node("event_adapter", "EventAdapter", "Java", <<"Adapter Layer", "Output Adapters">>),
         Node("file_adapter", "FileSystemAdapter", "Java", <<"Adapter Layer", "Output Adapters">>),
         Node("cache_adapter", "CacheAdapter", "Java", <<"Adapter Layer", "Output Adapters">>),
         Node("rest_framework", "Spring Framework", "Spring", <<"Infrastructure Layer">>),
         Node("database", "PostgreSQL", "PostgreSQL", <<"Infrastructure Layer">>),
         Node("file_system", "File System", "Storage", <<"Infrastructure Layer">>),
         Node("message_broker", "Message Broker", "Kafka", <<"Infrastructure Layer">>) >>,
     edges |-> <<
         <<"entities", "value_objects">>,
         <<"domain_services", "entities">>,
         <<"use_cases", "domain_services">>,
         <<"use_cases", "entities">>,
         <<"component_port", "use_cases">>,
         <<"machine_port", "use_cases">>,
         <<"composite_port", "use_cases">>,
         <<"use_cases", "persistence_port">>,
         <<"use_cases", "notification_port">>,
         <<"use_cases", "event_port">>,
         <<"use_cases", "file_port">>,
         <<"use_cases", "cache_port">>,
         <<"rest_adapter", "component_port">>,
         <<"cli_adapter", "component_port">>,
         <<"messaging_adapter", "machine_port">>,
         <<"persistence_adapter", "persistence_port">>,
         <<"notification_adapter", "notification_port">>,
         <<"event_adapter", "event_port">>,
         <<"file_adapter", "file_port">>,
         <<"cache_adapter", "cache_port">>,
         <<"rest_adapter", "rest_framework">>,
         <<"persistence_adapter", "database">>,
         <<"file_adapter", "file_system">>,
         <<"event_adapter", "message_broker">>,
         <<"notification_adapter", "message_broker">> >>]

----------------------------------------------------------------------------
(* The generate_* methods.  "outcome" is what the rendering library does   *)
(* when the Diagram context is closed (layout and rasterization by the     *)
(* layout engine): it completes and writes the image, or it raises an      *)
(* Exception that carries a message.                                       *)

RenderOk == [ok |-> TRUE, msg |-> ""]

RenderFailed ==
    [ok |-> FALSE,
     msg |-> "failed to execute dot, make sure the Graphviz executables are on your systems' PATH"]

\* the library is not called at all
NotRendered == [ok |-> FALSE, msg |-> ""]

\* what may happen in a call, given the module global diagrams_available
RenderOutcomes(available) ==
    IF available THEN {RenderOk, RenderFailed} ELSE {NotRendered}

\* a handler that returns the path after a failed render
RenderDispatch_PathOnFailure(self, available, stem, unavailable, label, spec, outcome) ==
    LET output_file == PathJoin(self.output_dir, <<stem, ".">> \o self.output_format)
        filename    == WithSuffixEmpty(output_file)
        target      == [dir |-> filename.dir,
                        name |-> filename.name \o <<".">> \o self.output_format]
    IN IF ~available
       THEN [printed |-> <<Msg("Unavailable", unavailable, EmptyStr)>>,
             ret |-> EmptyStr, raised |-> "None",
             opened |-> FALSE, constructed |-> FALSE, spec |-> NoSpec,
             written |-> {}]
       ELSE IF outcome.ok
       THEN [printed |-> <<Msg("Generated", label, PathStr(output_file))>>,
             ret |-> PathStr(output_file), raised |-> "None",
             opened |-> TRUE, constructed |-> TRUE, spec |-> spec,
             written |-> {target}]
       ELSE [printed |-> <<Msg("Failed", label, <<outcome.msg>>)>>,
             ret |-> PathStr(output_file), raised |-> "None",
             opened |-> TRUE, constructed |-> TRUE, spec |-> spec,
             written |-> {}]

\* a method without the diagrams_available guard
RenderDispatch_Unguarded(self, available, stem, unavailable, label, spec, outcome) ==
    LET output_file == PathJoin(self.output_dir, <<stem, ".">> \o self.output_format)
        filename    == WithSuffixEmpty(output_file)
        target      == [dir |-> filename.dir,
                        name |-> filename.name \o <<".">> \o self.output_format]
    IN IF FALSE
       THEN [printed |-> <<Msg("Unavailable", unavailable, EmptyStr)>>,
             ret |-> EmptyStr, raised |-> "None",
             opened |-> FALSE, constructed |-> FALSE, spec |-> NoSpec,
             written |-> {}]
       ELSE IF outcome.ok
       THEN [printed |-> <<Msg("Generated", label, PathStr(output_file))>>,
             ret |-> PathStr(output_file), raised |-> "None",
             opened |-> TRUE, constructed |-> TRUE, spec |-> spec,
             written |-> {target}]
       ELSE [printed |-> <<Msg("Failed", label, <<outcome.msg>>)>>,
             ret |-> EmptyStr, raised |-> "None",
             opened |-> TRUE, constructed |-> TRUE, spec |-> spec,
             written |-> {}]

\* a handler that prints the failure and raises it again
RenderDispatch_Reraise(self, available, stem, unavailable, label, spec, outcome) ==
    LET output_file == PathJoin(self.output_dir, <<stem, ".">> \o self.output_format)
        filename    == WithSuffixEmpty(output_file)
        target      == [dir |-> filename.dir,
                        name |-> filename.name \o <<".">> \o self.output_format]
    IN IF ~available
       THEN [printed |-> <<Msg("Unavailable", unavailable, EmptyStr)>>,
             ret |-> EmptyStr, raised |-> "None",
             opened |-> FALSE, constructed |-> FALSE, spec |-> NoSpec,
             written |-> {}]
       ELSE IF outcome.ok
       THEN [printed |-> <<Msg("Generated", label, PathStr(output_file))>>,
             ret |-> PathStr(output_file), raised |-> "None",
             opened |-> TRUE, constructed |-> TRUE, spec |-> spec,
             written |-> {target}]
       ELSE [printed |-> <<Msg("Failed", label, <<outcome.msg>>)>>,
             ret |-> EmptyStr, raised |-> "Exception",
             opened |-> TRUE, constructed |-> TRUE, spec |-> spec,
             written |-> {}]

\* The body shared by the nine methods: the availability guard, the output
\* file, the Diagram context with filename= and outformat=, the success
\* print and return, and the except Exception handler.  "raised" is the
\* exception that leaves the method: the handler lets none through.
RenderDispatch(self, available, stem, unavailable, label, spec, outcome) ==
    LET output_file == PathJoin(self.output_dir, <<stem, ".">> \o self.output_format)
        filename    == WithSuffixEmpty(output_file)
        target      == [dir |-> filename.dir,
                        name |-> filename.name \o <<".">> \o self.output_format]
    IN IF ~available
       THEN [printed |-> <<Msg("Unavailable", unavailable, EmptyStr)>>,
             ret |-> EmptyStr, raised |-> "None",
             opened |-> FALSE, constructed |-> FALSE, spec |-> NoSpec,
             written |-> {}]
       ELSE IF outcome.ok
       THEN [printed |-> <<Msg("Generated", label, PathStr(output_file))>>,
             ret |-> PathStr(output_file), raised |-> "None",
             opened |-> TRUE, constructed |-> TRUE, spec |-> spec,
             written |-> {target}]
       ELSE [printed |-> <<Msg("Failed", label, <<outcome.msg>>)>>,
             ret |-> EmptyStr, raised |-> "None",
             opened |-> TRUE, constructed |-> TRUE, spec |-> spec,
             written |-> {}]

generate_context_diagram(self, available, outcome) ==
    RenderDispatch(self, available, "samstraumr_context_diagram",
                   "context diagram", "context diagram",
                   context_diagram_spec, outcome)

generate_container_diagram(self, available, outcome) ==
    RenderDispatch(self, available, "samstraumr_container_diagram",
                   "container diagram", "container diagram",
                   container_diagram_spec, outcome)

generate_component_diagram(self, available, outcome) ==
    RenderDispatch(self, available, "samstraumr_component_diagram",
                   "component diagram", "component diagram",
                   component_diagram_spec, outcome)

generate_code_diagram(self, available, outcome) ==
    RenderDispatch(self, available, "samstraumr_code_diagram",
                   "code diagram", "code diagram",
                   code_diagram_spec, outcome)

generate_clean_architecture_diagram(self, available, outcome) ==
    RenderDispatch(self, available, "samstraumr_clean_architecture_diagram",
                   "clean architecture diagram", "clean architecture diagram",
                   clean_architecture_diagram_spec, outcome)

generate_ports_component_diagram(self, available, outcome) ==
    RenderDispatch(self, available, "samstraumr_ports_component_diagram",
                   "component diagram", "port interfaces component diagram",
                   ports_component_diagram_spec, outcome)

\* a port integration diagram that leaves its edges out at detail level low
generate_ports_integration_diagram_ByDetail(self, available, outcome) ==
    RenderDispatch(self, available, "samstraumr_ports_integration_diagram",
                   "port integration diagram", "port integration diagram",
                   IF self.detail_level = LOW
                   THEN [ports_integration_diagram_spec EXCEPT !.edges = <<>>]
                   ELSE ports_integration_diagram_spec,
                   outcome)

generate_ports_integration_diagram(self, available, outcome) ==
    RenderDispatch(self, available, "samstraumr_ports_integration_diagram",
                   "port integration diagram", "port integration diagram",
                   ports_integration_diagram_spec, outcome)

generate_detailed_port_diagram(self, available, outcome) ==
    RenderDispatch(self, available, "samstraumr_detailed_ports_diagram",
                   "detailed port diagram", "detailed port diagram",
                   detailed_port_diagram_spec(self.detail_level), outcome)

generate_clean_architecture_ports_diagram(self, available, outcome) ==
    RenderDispatch(self, available, "samstraumr_clean_arch_ports_diagram",
                   "Clean Architecture ports diagram",
                   "Clean Architecture ports diagram",
                   clean_architecture_ports_diagram_spec, outcome)

\* the bound method self.<method>()
CallMethod(method, self, available, outcome) ==
    CASE method = "generate_context_diagram" ->
            generate_context_diagram(self, available, outcome)
      [] method = "generate_container_diagram" ->
            generate_container_diagram(self, available, outcome)
      [] method = "generate_component_diagram" ->
            generate_component_diagram(self, available, outcome)
      [] method = "generate_code_diagram" ->
            generate_code_diagram(self, available, outcome)
      [] method = "generate_clean_architecture_diagram" ->
            generate_clean_architecture_diagram(self, available, outcome)
      [] method = "generate_ports_component_diagram" ->
            generate_ports_component_diagram(self, available, outcome)
      [] method = "generate_ports_integration_diagram" ->
            generate_ports_integration_diagram(self, available, outcome)
      [] method = "generate_detailed_port_diagram" ->
            generate_detailed_port_diagram(self, available, outcome)
      [] method = "generate_clean_architecture_ports_diagram" ->
            generate_clean_architecture_ports_diagram(self, available, outcome)

\* the methods generate_all calls, in the order it calls them
C4_ALL == << "generate_context_diagram", "generate_container_diagram",
             "generate_component_diagram", "generate_code_diagram",
             "generate_clean_architecture_diagram" >>

PORT_ALL == << "generate_ports_component_diagram",
               "generate_ports_integration_diagram",
               "generate_detailed_port_diagram",
               "generate_clean_architecture_ports_diagram" >>

BatchOrder(self) ==
    IF self.cls = "C4DiagramGenerator" THEN C4_ALL ELSE PORT_ALL

Range(s) == { s[i] : i \in 1..Len(s) }

----------------------------------------------------------------------------
(* Command lines.  An option is <<>> when it is not given and <<v>> when   *)
(* it is given with value v.                                               *)

TYPE_CHOICES == {"context", "container", "component", "code", "clean", "port", "all"}

TypeArgs == {<<>>} \cup { <<t>> : t \in TYPE_CHOICES } \cup {<<"ports">>}
OutputArgs == {<<>>, <<PNG>>, <<SVG>>, <<PDF>>, << <<"P","N","G">> >>}
DetailArgs == {<<>>, <<LOW>>, <<MEDIUM>>, <<HIGH>>, << <<"H","i","g","h">> >>}
DirArgs == {<<>>, <<EmptyStr>>, << <<"out">> >>, << <<"docs","/","diagrams">> >>}

\* c4_diagrams.main lines 371-389: parser.parse_args(); error |-> TRUE is
\* parser.error(), which exits with status 2
ParseArgsA(type, output, dir) ==
    [error  |-> \/ (type # <<>> /\ type[1] \notin TYPE_CHOICES)
                \/ (output # <<>> /\ output[1] \notin FORMATS),
     type   |-> IF type = <<>> THEN "all" ELSE type[1],
     output |-> IF output = <<>> THEN PNG ELSE output[1],
     detail |-> <<>>,
     dir    |-> dir]

\* port_interfaces_diagram.main lines 500-518
ParseArgsB(output, detail, dir) ==
    [error  |-> \/ (output # <<>> /\ output[1] \notin FORMATS)
                \/ (detail # <<>> /\ detail[1] \notin DETAIL_LEVELS),
     type   |-> "all",
     output |-> IF output = <<>> THEN SVG ELSE output[1],
     detail |-> IF detail = <<>> THEN <<MEDIUM>> ELSE <<detail[1]>>,
     dir    |-> dir]

\* a default that is taken only when --dir is absent ("is None")
DirOrDefault_WhenAbsent(dir) ==
    IF dir = <<>> THEN DEFAULT_DIR ELSE dir[1]

\* args.dir or "docs/diagrams"
DirOrDefault(dir) ==
    IF dir = <<>> \/ ~Truthy(dir[1]) THEN DEFAULT_DIR ELSE dir[1]

NoArgs == [error |-> FALSE, type |-> "", output |-> EmptyStr,
           detail |-> <<>>, dir |-> <<>>]

NoArgv == [type |-> <<>>, output |-> <<>>, detail |-> <<>>, dir |-> <<>>]

NoRequest == [cls |-> "None", output_dir |-> EmptyStr, output_format |-> EmptyStr,
              detail_level |-> EmptyStr, osOk |-> TRUE]

\* values a client passes to the constructors
FormatValues == {PNG, <<"P","d","f">>, <<"j","p","g">>, <<"G","I","F">>}
DetailValues == {LOW, <<"H","i","g","h">>, <<"j","p","g">>}
DirValues == {EmptyStr, <<"docs","/","diagrams">>}

----------------------------------------------------------------------------
(* The state machine *)

Init ==
    /\ pc = "start"
    /\ script = "A"
    /\ mode = "main"
    /\ diagrams_available = FALSE
    /\ argv = NoArgv
    /\ args = NoArgs
    /\ request = NoRequest
    /\ generator = NoGenerator
    /\ fs_dirs \in {{}, Prefixes(Path(DEFAULT_DIR))}
    /\ fs_files = {}
    /\ log = <<>>
    /\ ret = EmptyStr
    /\ files = <<>>
    /\ batchIdx = 0
    /\ batchMark = 0
    /\ calls = <<>>
    /\ attempts = <<>>
    /\ built = NoSpec
    /\ nopen = 0
    /\ raised = "None"
    /\ exitCode = -1
    /\ nops = 0

\* the interpreter is started on one of the two scripts, or a client
\* program is started that imports one of them
Start ==
    /\ pc = "start"
    /\ \E s \in {"A", "B"}, m \in {"main", "api"} :
          /\ script' = s
          /\ mode' = m
    /\ pc' = "import"
    /\ UNCHANGED <<diagrams_available, argv, args, request, generator, fs_dirs,
                   fs_files, log, ret, files, batchIdx, batchMark, calls,
                   attempts, built, nopen, raised, exitCode, nops>>

\* c4_diagrams.py lines 23-39, port_interfaces_diagram.py lines 22-42:
\* the try/except ImportError around the imports of the diagrams package
ImportModule ==
    /\ pc = "import"
    /\ \E importOk \in BOOLEAN :
          /\ diagrams_available' = importOk
          /\ log' = IF importOk THEN log ELSE log \o ImportWarning
    /\ pc' = IF mode = "main" THEN "parse" ELSE "api"
    /\ UNCHANGED <<script, mode, argv, args, request, generator, fs_dirs,
                   fs_files, ret, files, batchIdx, batchMark, calls, attempts,
                   built, nopen, raised, exitCode, nops>>

\* main(): parser.parse_args()
MainParse ==
    /\ pc = "parse"
    /\ \E type \in TypeArgs, output \in OutputArgs, detail \in DetailArgs,
          dir \in DirArgs :
          LET parsed == IF script = "A" THEN ParseArgsA(type, output, dir)
                        ELSE ParseArgsB(output, detail, dir)
          IN /\ script = "A" => detail = <<>>
             /\ script = "B" => type = <<>>
             /\ argv' = [type |-> type, output |-> output, detail |-> detail,
                         dir |-> dir]
             /\ IF parsed.error
                THEN /\ args' = args
                     /\ raised' = "SystemExit"
                     /\ exitCode' = 2
                     /\ pc' = "exited"
                ELSE /\ args' = parsed
                     /\ raised' = raised
                     /\ exitCode' = exitCode
                     /\ pc' = "construct"
    /\ UNCHANGED <<script, mode, diagrams_available, request, generator,
                   fs_dirs, fs_files, log, ret, files, batchIdx, batchMark,
                   calls, attempts, built, nopen, nops>>

\* what the operating system may answer when mkdir asks it to create the
\* directory: it is not asked when the directory exists
OsAnswers(output_dir, dirs) ==
    IF DirExists(Path(output_dir), dirs) THEN {TRUE} ELSE BOOLEAN

\* the call of the constructor of the script's class; osOk is whether the
\* operating system lets a missing directory be created
Construct(output_dir, output_format, detail_level, osOk) ==
    IF script = "A"
    THEN C4DiagramGenerator(output_dir, output_format, fs_dirs, osOk)
    ELSE PortInterfaceDiagramGenerator(output_dir, output_format, detail_level,
                                       fs_dirs, osOk)

Request(output_dir, output_format, detail_level, osOk) ==
    [cls |-> IF script = "A" THEN "C4DiagramGenerator"
             ELSE "PortInterfaceDiagramGenerator",
     output_dir |-> output_dir, output_format |-> output_format,
     detail_level |-> detail_level, osOk |-> osOk]

\* main(): "generator = ...Generator(...)".  An OSError of mkdir is caught
\* nowhere: it leaves main() and the interpreter exits with status 1.
MainConstruct ==
    /\ pc = "construct"
    /\ \E osOk \in OsAnswers(DirOrDefault(args.dir), fs_dirs) :
          LET detail == IF script = "A" THEN MEDIUM ELSE args.detail[1]
              c == Construct(DirOrDefault(args.dir), args.output, detail, osOk)
          IN /\ request' = Request(DirOrDefault(args.dir), args.output,
                                   detail, osOk)
             /\ log' = log \o c.printed
             /\ fs_dirs' = c.dirs
             /\ generator' = c.self
             /\ IF c.raised
                THEN /\ raised' = "OSError"
                     /\ exitCode' = 1
                     /\ pc' = "exited"
                ELSE /\ raised' = raised
                     /\ exitCode' = exitCode
                     /\ pc' = "dispatch"
    /\ UNCHANGED <<script, mode, diagrams_available, argv, args, fs_files, ret,
                   files, batchIdx, batchMark, calls, attempts, built, nopen,
                   nops>>

\* the effect of one call self.<method>() on the state
Invoke(method, outcome) ==
    LET r == CallMethod(method, generator, diagrams_available, outcome)
    IN /\ log' = log \o r.printed
       /\ ret' = r.ret
       /\ raised' = r.raised
       /\ attempts' = Append(attempts, [method |-> method, outcome |-> outcome,
                                        ret |-> r.ret])
       /\ built' = IF r.constructed THEN r.spec ELSE built
       /\ nopen' = nopen + (IF r.opened THEN 1 ELSE 0)
       /\ fs_files' = fs_files \cup r.written

\* where control goes after a call made by main(): an exception that leaves
\* the call leaves main() too and ends the process with status 1
MainAfter(next) == IF raised' # "None" THEN "exited" ELSE next
ExitAfter == IF raised' # "None" THEN 1 ELSE exitCode

\* a chain whose "clean" branch calls the method of the branch above it
DISPATCH_A_CleanCallsCode ==
    [context |-> "generate_context_diagram",
     container |-> "generate_container_diagram",
     component |-> "generate_component_diagram",
     code |-> "generate_code_diagram",
     clean |-> "generate_code_diagram"]

\* c4_diagrams.main lines 397-407: the if/elif chain on args.type
DISPATCH_A ==
    [context |-> "generate_context_diagram",
     container |-> "generate_container_diagram",
     component |-> "generate_component_diagram",
     code |-> "generate_code_diagram",
     clean |-> "generate_clean_architecture_diagram"]

\* main() of script A, one of the five single-diagram branches
MainDispatchSingle ==
    /\ pc = "dispatch"
    /\ script = "A"
    /\ args.type \in DOMAIN DISPATCH_A
    /\ \E outcome \in RenderOutcomes(diagrams_available) :
          Invoke(DISPATCH_A[args.type], outcome)
    /\ calls' = Append(calls, DISPATCH_A[args.type])
    /\ pc' = MainAfter("return")
    /\ exitCode' = ExitAfter
    /\ UNCHANGED <<script, mode, diagrams_available, argv, args, request,
                   generator, fs_dirs, files, batchIdx, batchMark, nops>>

\* a "port" branch that prints nothing
MainDispatchPort_Silent ==
    /\ pc = "dispatch"
    /\ script = "A"
    /\ args.type = "port"
    /\ pc' = "return"
    /\ UNCHANGED <<script, mode, diagrams_available, argv, args, request,
                   generator, fs_dirs, fs_files, log, ret, files, batchIdx,
                   batchMark, calls, attempts, built, nopen, raised, exitCode,
                   nops>>

\* main() of script A, the "port" branch
MainDispatchPort ==
    /\ pc = "dispatch"
    /\ script = "A"
    /\ args.type = "port"
    /\ log' = Append(log, Msg("Redirect", "port_interfaces_diagram.py", EmptyStr))
    /\ pc' = "return"
    /\ UNCHANGED <<script, mode, diagrams_available, argv, args, request,
                   generator, fs_dirs, fs_files, ret, files, batchIdx,
                   batchMark, calls, attempts, built, nopen, raised, exitCode,
                   nops>>

\* main() of script A, the else branch, and main() of script B:
\* generate_all is entered, "files = []"
MainDispatchAll ==
    /\ pc = "dispatch"
    /\ script = "A" => args.type \notin (DOMAIN DISPATCH_A \cup {"port"})
    /\ calls' = Append(calls, "generate_all")
    /\ files' = <<>>
    /\ batchIdx' = 0
    /\ batchMark' = Len(log)
    /\ pc' = "batch"
    /\ UNCHANGED <<script, mode, diagrams_available, argv, args, request,
                   generator, fs_dirs, fs_files, log, ret, attempts, built,
                   nopen, raised, exitCode, nops>>

\* a generate_all that appends every result, empty or not
BatchStep_AppendsAlways ==
    /\ pc = "batch"
    /\ batchIdx < Len(BatchOrder(generator))
    /\ \E outcome \in RenderOutcomes(diagrams_available) :
          Invoke(BatchOrder(generator)[batchIdx + 1], outcome)
    /\ files' = Append(files, ret')
    /\ batchIdx' = batchIdx + 1
    /\ pc' = IF raised' = "None" THEN "batch"
             ELSE IF mode = "main" THEN "exited" ELSE "api"
    /\ exitCode' = IF mode = "main" THEN ExitAfter ELSE exitCode
    /\ UNCHANGED <<script, mode, diagrams_available, argv, args, request,
                   generator, fs_dirs, batchMark, calls, nops>>

\* a generate_all that stays at a kind whose result was empty and tries it
\* again
BatchStep_RetriesFailed ==
    /\ pc = "batch"
    /\ batchIdx < Len(BatchOrder(generator))
    /\ \E outcome \in RenderOutcomes(diagrams_available) :
          Invoke(BatchOrder(generator)[batchIdx + 1], outcome)
    /\ files' = IF raised' = "None" /\ Truthy(ret') THEN Append(files, ret')
                ELSE files
    /\ batchIdx' = IF Truthy(ret') THEN batchIdx + 1 ELSE batchIdx
    /\ pc' = IF raised' = "None" THEN "batch"
             ELSE IF mode = "main" THEN "exited" ELSE "api"
    /\ exitCode' = IF mode = "main" THEN ExitAfter ELSE exitCode
    /\ UNCHANGED <<script, mode, diagrams_available, argv, args, request,
                   generator, fs_dirs, batchMark, calls, nops>>

\* generate_all: the next "x_file = self.generate_x()" and
\* "if x_file: files.append(x_file)"
BatchStep ==
    /\ pc = "batch"
    /\ batchIdx < Len(BatchOrder(generator))
    /\ \E outcome \in RenderOutcomes(diagrams_available) :
          Invoke(BatchOrder(generator)[batchIdx + 1], outcome)
    /\ files' = IF raised' = "None" /\ Truthy(ret') THEN Append(files, ret')
                ELSE files
    /\ batchIdx' = batchIdx + 1
    /\ pc' = IF raised' = "None" THEN "batch"
             ELSE IF mode = "main" THEN "exited" ELSE "api"
    /\ exitCode' = IF mode = "main" THEN ExitAfter ELSE exitCode
    /\ UNCHANGED <<script, mode, diagrams_available, argv, args, request,
                   generator, fs_dirs, batchMark, calls, nops>>

\* generate_all: "return files"
BatchReturn ==
    /\ pc = "batch"
    /\ batchIdx = Len(BatchOrder(generator))
    /\ pc' = IF mode = "api" THEN "api"
             ELSE IF script = "B" THEN "report" ELSE "return"
    /\ UNCHANGED <<script, mode, diagrams_available, argv, args, request,
                   generator, fs_dirs, fs_files, log, ret, files, batchIdx,
                   batchMark, calls, attempts, built, nopen, raised, exitCode,
                   nops>>

\* port_interfaces_diagram.main lines 530-533
MainReport ==
    /\ pc = "report"
    /\ log' = Append(log,
                IF files # <<>>
                THEN Msg("Count", "port interface diagrams", <<ToString(Len(files))>>)
                ELSE Msg("NoneGenerated", "port interface diagrams", EmptyStr))
    /\ pc' = "return"
    /\ UNCHANGED <<script, mode, diagrams_available, argv, args, request,
                   generator, fs_dirs, fs_files, ret, files, batchIdx,
                   batchMark, calls, attempts, built, nopen, raised, exitCode,
                   nops>>

\* main() returns and the interpreter exits
MainReturn ==
    /\ pc = "return"
    /\ exitCode' = 0
    /\ pc' = "exited"
    /\ UNCHANGED <<script, mode, diagrams_available, argv, args, request,
                   generator, fs_dirs, fs_files, log, ret, files, batchIdx,
                   batchMark, calls, attempts, built, nopen, raised, nops>>

\* a client constructs a generator of the imported module; an OSError of
\* mkdir reaches the client and no object is bound
ApiConstruct ==
    /\ pc = "api"
    /\ nops < MaxOps
    /\ \E dir \in DirValues, fmt \in FormatValues, detail \in DetailValues :
       \E osOk \in OsAnswers(dir, fs_dirs) :
          LET c == Construct(dir, fmt, detail, osOk)
          IN /\ script = "A" => detail = LOW
             /\ request' = Request(dir, fmt, detail, osOk)
             /\ log' = log \o c.printed
             /\ fs_dirs' = c.dirs
             /\ generator' = IF c.raised THEN generator ELSE c.self
             /\ raised' = IF c.raised THEN "OSError" ELSE "None"
    /\ nops' = nops + 1
    /\ UNCHANGED <<pc, script, mode, diagrams_available, argv, args, fs_files,
                   ret, files, batchIdx, batchMark, calls, attempts, built,
                   nopen, exitCode>>

\* a generate_* call that resets the format of its generator to png
ApiGenerate_Mutates ==
    /\ pc = "api"
    /\ nops < MaxOps
    /\ generator # NoGenerator
    /\ \E method \in Range(BatchOrder(generator)),
          outcome \in RenderOutcomes(diagrams_available) :
          /\ Invoke(method, outcome)
          /\ calls' = Append(calls, method)
    /\ generator' = [generator EXCEPT !.output_format = PNG]
    /\ nops' = nops + 1
    /\ UNCHANGED <<pc, script, mode, diagrams_available, argv, args, request,
                   fs_dirs, files, batchIdx, batchMark, exitCode>>

\* a client calls one generate_* method of its generator
ApiGenerate ==
    /\ pc = "api"
    /\ nops < MaxOps
    /\ generator # NoGenerator
    /\ \E method \in Range(BatchOrder(generator)),
          outcome \in RenderOutcomes(diagrams_available) :
          /\ Invoke(method, outcome)
          /\ calls' = Append(calls, method)
    /\ nops' = nops + 1
    /\ UNCHANGED <<pc, script, mode, diagrams_available, argv, args, request,
                   generator, fs_dirs, files, batchIdx, batchMark, exitCode>>

\* a client calls generate_all of its generator
ApiGenerateAll ==
    /\ pc = "api"
    /\ nops < MaxOps
    /\ generator # NoGenerator
    /\ calls' = Append(calls, "generate_all")
    /\ files' = <<>>
    /\ batchIdx' = 0
    /\ batchMark' = Len(log)
    /\ raised' = "None"
    /\ pc' = "batch"
    /\ nops' = nops + 1
    /\ UNCHANGED <<script, mode, diagrams_available, argv, args, request,
                   generator, fs_dirs, fs_files, log, ret, attempts, built,
                   nopen, exitCode>>

Next ==
    \/ Start
    \/ ImportModule
    \/ MainParse
    \/ MainConstruct
    \/ MainDispatchSingle
    \/ MainDispatchPort
    \/ MainDispatchAll
    \/ BatchStep
    \/ BatchReturn
    \/ MainReport
    \/ MainReturn
    \/ ApiConstruct
    \/ ApiGenerate
    \/ ApiGenerateAll

Spec == Init /\ [][Next]_vars

\* A client session: a client that has imported one of the modules holds a
\* generator it has constructed, and goes on calling its methods.  The
\* construction is behind it and is not counted in nops.
SessionFormats == {<<"P","d","f">>}
SessionDetails == {LOW, <<"H","i","g","h">>}

InitSession ==
    /\ pc = "api"
    /\ mode = "api"
    /\ script \in {"A", "B"}
    /\ diagrams_available \in BOOLEAN
    /\ argv = NoArgv
    /\ args = NoArgs
    /\ \E fmt \in SessionFormats, detail \in SessionDetails :
          LET c == IF script = "A"
                   THEN C4DiagramGenerator(DEFAULT_DIR, fmt, {}, TRUE)
                   ELSE PortInterfaceDiagramGenerator(DEFAULT_DIR, fmt, detail,
                                                      {}, TRUE)
          IN /\ script = "A" => detail = LOW
             /\ request = Request(DEFAULT_DIR, fmt, detail, TRUE)
             /\ generator = c.self
             /\ fs_dirs = c.dirs
             /\ log = (IF diagrams_available THEN <<>> ELSE ImportWarning)
                         \o c.printed
    /\ fs_files = {}
    /\ ret = EmptyStr
    /\ files = <<>>
    /\ batchIdx = 0
    /\ batchMark = 0
    /\ calls = <<>>
    /\ attempts = <<>>
    /\ built = NoSpec
    /\ nopen = 0
    /\ raised = "None"
    /\ exitCode = -1
    /\ nops = 0

NextSession ==
    \/ ApiGenerate
    \/ ApiGenerateAll
    \/ BatchStep
    \/ BatchReturn

SpecSession == InitSession /\ [][NextSession]_vars

\* The statements of generate_all run one after the other in one thread:
\* when every render call returns, the next statement is reached.
SpecFair == Spec /\ WF_vars(BatchStep) /\ WF_vars(BatchReturn)

----------------------------------------------------------------------------
(* Properties *)

\* what a step printed
Added == SubSeq(log', Len(log) + 1, Len(log'))

CountTag(s, tag) == Cardinality({ i \in 1..Len(s) : s[i].tag = tag })

Last(s) == s[Len(s)]

\* a step that runs a constructor, a step that runs one generate_* method
ConstructStep == MainConstruct \/ ApiConstruct
GenerateStep == Len(attempts') = Len(attempts) + 1

\* generate_all has gone through all its kinds and is about to return
BatchDone == pc = "batch" /\ batchIdx = Len(BatchOrder(generator))

DocumentedDefault(cls) == IF cls = "C4DiagramGenerator" THEN PNG ELSE SVG
DocumentedDefaultName(cls) == IF cls = "C4DiagramGenerator" THEN "png" ELSE "svg"

\* C1: a constructor given an output format whose lower-cased form is not
\* png, svg or pdf prints exactly one unsupported-format warning, which names
\* the value as it was requested; it raises only when the operating system
\* refuses to create the directory; and the object it returns has the
\* default of its class as output_format (png for C4DiagramGenerator, svg
\* for PortInterfaceDiagramGenerator).
C1_RejectedFormatDefaults ==
    [][ (ConstructStep /\ Lower(request'.output_format) \notin {PNG, SVG, PDF})
        => /\ CountTag(Added, "UnsupportedFormat") = 1
           /\ \E i \in 1..Len(Added) :
                 Added[i] = Msg("UnsupportedFormat",
                                DocumentedDefaultName(request'.cls),
                                request'.output_format)
           /\ (raised' = "OSError") <=> ~request'.osOk
           /\ raised' # "OSError"
              => /\ generator'.cls = request'.cls
                 /\ generator'.output_format = DocumentedDefault(request'.cls)
      ]_vars

C1_Witness ==
    /\ mode = "api" /\ nops = 1 /\ raised = "None"
    /\ request.cls = "PortInterfaceDiagramGenerator"
    /\ request.output_format = <<"G","I","F">>
    /\ generator.cls = "PortInterfaceDiagramGenerator"
    /\ generator.output_format = SVG
    /\ CountTag(log, "UnsupportedFormat") = 1

\* C2: a PortInterfaceDiagramGenerator constructor given a detail level
\* whose lower-cased form is not low, medium or high prints exactly one
\* unsupported-detail warning and stores "medium", whether or not the output
\* format was rejected in the same call (the format warning is then printed
\* as well, and nothing else).
C2_RejectedDetailDefaults ==
    [][ (/\ ConstructStep
         /\ request'.cls = "PortInterfaceDiagramGenerator"
         /\ Lower(request'.detail_level) \notin {LOW, MEDIUM, HIGH})
        => /\ CountTag(Added, "UnsupportedDetail") = 1
           /\ Last(Added) = Msg("UnsupportedDetail", "medium", request'.detail_level)
           /\ Len(Added) = IF Lower(request'.output_format) \in {PNG, SVG, PDF}
                           THEN 1 ELSE 2
           /\ raised' # "OSError" => generator'.detail_level = MEDIUM
      ]_vars

C2_Witness ==
    /\ mode = "api" /\ nops = 1 /\ raised = "None"
    /\ request.output_format = <<"j","p","g">>
    /\ request.detail_level = <<"j","p","g">>
    /\ generator.cls = "PortInterfaceDiagramGenerator"
    /\ generator.detail_level = MEDIUM
    /\ generator.output_format = SVG
    /\ CountTag(log, "UnsupportedDetail") = 1
    /\ CountTag(log, "UnsupportedFormat") = 1

\* C3: with the rendering library available, a call of any generate_* method
\* lets no exception out; when the render raised, it returns the empty
\* string and prints exactly one failure message that carries the
\* exception's message; when the render completed, it returns a non-empty
\* path and prints exactly one confirmation that names that path; so the
\* result is non-empty exactly when the render succeeded.
C3_RenderFailureContained ==
    [][ (GenerateStep /\ diagrams_available)
        => LET a == Last(attempts')
           IN /\ raised' = "None"
              /\ Len(Added) = 1
              /\ ~a.outcome.ok
                 => /\ ret' = EmptyStr
                    /\ Added[1].tag = "Failed"
                    /\ Added[1].text = <<a.outcome.msg>>
              /\ a.outcome.ok
                 => /\ ret' # EmptyStr
                    /\ Added[1].tag = "Generated"
                    /\ Added[1].text = ret'
              /\ (ret' # EmptyStr) <=> a.outcome.ok
      ]_vars

C3_Witness ==
    /\ diagrams_available
    /\ attempts # <<>>
    /\ Last(attempts).method = "generate_detailed_port_diagram"
    /\ ~Last(attempts).outcome.ok
    /\ Last(attempts).outcome.msg # ""
    /\ ret = EmptyStr
    /\ Last(log).tag = "Failed"
    /\ Last(log).text = <<Last(attempts).outcome.msg>>
    /\ raised = "None"

\* the methods of the kinds the two batches go through, in the stated order
\* (script A: context, container, component, code, clean-architecture;
\* script B: ports-component, ports-integration, detailed-ports,
\* clean-architecture-ports)
StatedOrder(cls) ==
    IF cls = "C4DiagramGenerator"
    THEN << "generate_context_diagram", "generate_container_diagram",
            "generate_component_diagram", "generate_code_diagram",
            "generate_clean_architecture_diagram" >>
    ELSE << "generate_ports_component_diagram",
            "generate_ports_integration_diagram",
            "generate_detailed_port_diagram",
            "generate_clean_architecture_ports_diagram" >>

\* the attempts of the batch that is done
BatchAttempts ==
    SubSeq(attempts, Len(attempts) - batchIdx + 1, Len(attempts))

\* the values returned by the attempts whose render succeeded, in order
RECURSIVE SucceededPaths(_)
SucceededPaths(as) ==
    IF as = <<>> THEN <<>>
    ELSE (IF as[1].outcome.ok THEN <<as[1].ret>> ELSE <<>>)
         \o SucceededPaths(Tail(as))

\* C4: when generate_all is about to return, it has called every method of
\* its generator once, in the stated order, whatever each call's outcome;
\* its list holds exactly the paths returned by the calls whose render
\* succeeded, in that order and without duplicates; when every render
\* succeeded the list has 5 paths (script A) or 4 paths (script B).
C4_BatchCollectsSuccesses ==
    BatchDone
    => /\ batchIdx = Len(StatedOrder(generator.cls))
       /\ [i \in 1..Len(BatchAttempts) |-> BatchAttempts[i].method]
             = StatedOrder(generator.cls)
       /\ files = SucceededPaths(BatchAttempts)
       /\ \A i \in 1..Len(files) : files[i] # EmptyStr
       /\ \A i, j \in 1..Len(files) : files[i] = files[j] => i = j
       /\ (\A i \in 1..Len(BatchAttempts) : BatchAttempts[i].outcome.ok)
          => Len(files) = IF generator.cls = "C4DiagramGenerator" THEN 5 ELSE 4

\* a batch of script B whose second kind failed and whose other kinds succeeded
C4_Witness ==
    /\ BatchDone
    /\ generator.cls = "PortInterfaceDiagramGenerator"
    /\ BatchAttempts[1].outcome.ok
    /\ ~BatchAttempts[2].outcome.ok
    /\ BatchAttempts[3].outcome.ok
    /\ BatchAttempts[4].outcome.ok
    /\ Len(files) = 3
    /\ files = <<BatchAttempts[1].ret, BatchAttempts[3].ret, BatchAttempts[4].ret>>

\* C5: with the rendering library unavailable, a call of any generate_*
\* method returns the empty string, prints exactly one library-unavailable
\* message and nothing else, opens no Diagram context, constructs no
\* specification and writes no file; and when generate_all is about to
\* return, its list is empty and what it printed is exactly one such message
\* per kind (5 for script A, 4 for script B).
C5_UnavailableShortCircuits ==
    /\ [][ (GenerateStep /\ ~diagrams_available)
           => /\ ret' = EmptyStr
              /\ raised' = "None"
              /\ Len(Added) = 1
              /\ Added[1].tag = "Unavailable"
              /\ nopen' = nopen
              /\ built' = built
              /\ fs_files' = fs_files
         ]_vars
    /\ [](BatchDone /\ ~diagrams_available
          => /\ files = <<>>
             /\ Len(log) - batchMark
                   = IF generator.cls = "C4DiagramGenerator" THEN 5 ELSE 4
             /\ \A i \in (batchMark + 1)..Len(log) : log[i].tag = "Unavailable")

C5_Witness ==
    /\ BatchDone
    /\ ~diagrams_available
    /\ generator.cls = "C4DiagramGenerator"
    /\ files = <<>>
    /\ CountTag(log, "Unavailable") = 5
    /\ nopen = 0 /\ built = NoSpec /\ fs_files = {}

\* the "Standard Implementations" group of a specification, and the edges
\* that leave its nodes
HasStandardImplementations(spec) ==
    \E i \in 1..Len(spec.clusters) :
        spec.clusters[i] = <<"Standard Implementations">>

NodesIn(spec, cluster) ==
    { spec.nodes[i].id : i \in { j \in 1..Len(spec.nodes) :
                                    spec.nodes[j].cluster = cluster } }

ImplementationEdges(spec) ==
    { i \in 1..Len(spec.edges) :
         \/ spec.edges[i][1] \in NodesIn(spec, <<"Standard Implementations">>)
         \/ spec.edges[i][2] \in NodesIn(spec, <<"Standard Implementations">>) }

PortNodes ==
    {"notification", "cache", "file_system", "validation", "persistence"}

\* C6: the specification generate_detailed_port_diagram constructs contains
\* the "Standard Implementations" group exactly when the generator's detail
\* level is "high", and then there are exactly five edges that touch the
\* group, one from an implementation to each of the five port nodes;
\* otherwise no node and no edge of the group exists.  This holds both when
\* the render that follows succeeds and when it fails.
C6_HighDetailAddsImplementations ==
    [][ (/\ GenerateStep
         /\ diagrams_available
         /\ Last(attempts').method = "generate_detailed_port_diagram")
        => /\ built'.title = "Samstraumr Detailed Port Interfaces"
           /\ HasStandardImplementations(built') <=> generator.detail_level = HIGH
           /\ generator.detail_level = HIGH
              => /\ Cardinality(ImplementationEdges(built')) = 5
                 /\ { built'.edges[i][2] : i \in ImplementationEdges(built') }
                       = PortNodes
                 /\ \A i \in ImplementationEdges(built') :
                       built'.edges[i][1]
                          \in NodesIn(built', <<"Standard Implementations">>)
           /\ generator.detail_level # HIGH
              => /\ NodesIn(built', <<"Standard Implementations">>) = {}
                 /\ ImplementationEdges(built') = {}
      ]_vars

\* high detail requested as "High", render failed
C6_Witness ==
    /\ attempts # <<>>
    /\ Last(attempts).method = "generate_detailed_port_diagram"
    /\ diagrams_available
    /\ ~Last(attempts).outcome.ok
    /\ request.detail_level = <<"H","i","g","h">>
    /\ generator.detail_level = HIGH
    /\ HasStandardImplementations(built)
    /\ Cardinality(ImplementationEdges(built)) = 5

\* a run of script A's main() whose accepted command line selects "port"
PortRun ==
    /\ mode = "main" /\ script = "A"
    /\ argv.type = <<"port">>
    /\ args.type = "port"

\* C7 as stated: every finished run of script A's main() with --type port,
\* whatever the output format, the output directory and the availability of
\* the library, has generated no file and printed exactly one redirect
\* message.
C7_PortAlwaysRedirects ==
    (PortRun /\ pc = "exited")
    => /\ fs_files = {}
       /\ CountTag(log, "Redirect") = 1

\* C7 amended: a finished run of script A's main() with --type port whose
\* constructor returned (the output directory existed or could be created)
\* has called no generate method, generated no file, printed exactly one
\* redirect message and exits with status 0, whatever the output format, the
\* directory and the availability of the library; a run whose constructor
\* raised has printed no redirect message and generated no file.
C7_PortRedirectsOnceConstructed ==
    (PortRun /\ pc = "exited")
    => /\ fs_files = {}
       /\ attempts = <<>>
       /\ calls = <<>>
       /\ generator # NoGenerator
          => /\ CountTag(log, "Redirect") = 1
             /\ Last(log) = Msg("Redirect", "port_interfaces_diagram.py", EmptyStr)
             /\ exitCode = 0
       /\ generator = NoGenerator
          => /\ CountTag(log, "Redirect") = 0
             /\ raised = "OSError"

\* library unavailable, svg requested, directory given
C7_Witness ==
    /\ PortRun /\ pc = "exited"
    /\ ~diagrams_available
    /\ argv.output = <<SVG>>
    /\ argv.dir = << <<"out">> >>
    /\ generator # NoGenerator
    /\ CountTag(log, "Redirect") = 1
    /\ fs_files = {}

Methods(as) == [i \in 1..Len(as) |-> as[i].method]

\* C8: when the dispatch of script A's main() is over, --type context,
\* container, component, code and clean have each called exactly the
\* matching method (clean: generate_clean_architecture_diagram), once, and
\* no other generate method; --type all and an omitted --type have called
\* generate_all, once, and main() itself has called no single-diagram
\* method.
C8_DispatchMatchesType ==
    (mode = "main" /\ script = "A" /\ pc = "return")
    => /\ argv.type = <<"context">>
          => /\ calls = <<"generate_context_diagram">>
             /\ Methods(attempts) = <<"generate_context_diagram">>
       /\ argv.type = <<"container">>
          => /\ calls = <<"generate_container_diagram">>
             /\ Methods(attempts) = <<"generate_container_diagram">>
       /\ argv.type = <<"component">>
          => /\ calls = <<"generate_component_diagram">>
             /\ Methods(attempts) = <<"generate_component_diagram">>
       /\ argv.type = <<"code">>
          => /\ calls = <<"generate_code_diagram">>
             /\ Methods(attempts) = <<"generate_code_diagram">>
       /\ argv.type = <<"clean">>
          => /\ calls = <<"generate_clean_architecture_diagram">>
             /\ Methods(attempts) = <<"generate_clean_architecture_diagram">>
       /\ argv.type \in {<<>>, <<"all">>}
          => /\ calls = <<"generate_all">>
             /\ Len(attempts) = 5

\* --type omitted
C8_Witness ==
    /\ mode = "main" /\ script = "A" /\ pc = "return"
    /\ argv.type = <<>>
    /\ calls = <<"generate_all">>
    /\ Len(attempts) = 5

\* C9 as stated: every run of either script whose command line is accepted
\* ends with exit status 0 and no error reaching the entry point, whatever
\* directory creation, the import and the renders did.
C9_AlwaysExitZero ==
    (mode = "main" /\ pc = "exited" /\ args # NoArgs)
    => /\ exitCode = 0
       /\ raised = "None"

\* C9 amended: a run of either script ends with exit status 0, and with no
\* error reaching the entry point, exactly when its command line was accepted
\* and its constructor returned (the output directory existed or could be
\* created), whatever the import and the renders did; it ends with status 2
\* exactly when the parser rejected the command line and with status 1
\* exactly when directory creation failed in the constructor.
C9_ExitZeroOnceConstructed ==
    (mode = "main" /\ pc = "exited")
    => /\ exitCode \in {0, 1, 2}
       /\ (exitCode = 0) <=> (args # NoArgs /\ generator # NoGenerator)
       /\ (exitCode = 0) <=> (raised = "None")
       /\ (exitCode = 2) <=> (args = NoArgs /\ raised = "SystemExit")
       /\ (exitCode = 1) <=> (args # NoArgs /\ ~request.osOk /\ raised = "OSError")

\* script B exits 0 after a batch in which a render failed
C9_Witness ==
    /\ mode = "main" /\ script = "B" /\ pc = "exited"
    /\ exitCode = 0
    /\ diagrams_available
    /\ \E i \in 1..Len(attempts) : ~attempts[i].outcome.ok
    /\ \E i \in 1..Len(attempts) : attempts[i].outcome.ok

\* C10: when the operating system refuses the directory creation of a
\* constructor, the OSError leaves the constructor and no object is bound;
\* in a main() run this ends the process at once with a non-zero status, so
\* a run that ended this way has no generator and has called no generate
\* method.
C10_MkdirFailureIsFatal ==
    /\ [][ (ConstructStep /\ ~request'.osOk)
           => /\ raised' = "OSError"
              /\ generator' = generator
              /\ attempts' = attempts
              /\ mode = "main"
                 => /\ pc' = "exited"
                    /\ exitCode' = 1
                    /\ generator' = NoGenerator
         ]_vars
    /\ []((mode = "main" /\ raised = "OSError")
          => /\ pc = "exited"
             /\ generator = NoGenerator
             /\ attempts = <<>>
             /\ calls = <<>>
             /\ fs_files = {})

C10_Witness ==
    /\ mode = "main" /\ script = "B" /\ pc = "exited"
    /\ ~request.osOk
    /\ raised = "OSError"
    /\ exitCode = 1
    /\ generator = NoGenerator
    /\ attempts = <<>>

BatchRunReturned ==
    /\ mode = "main"
    /\ pc \in {"return", "exited"}
    /\ calls = <<"generate_all">>
    /\ raised = "None"

\* C12: after the batch run of either script (script A with --type all or
\* without --type, script B always) the last thing printed is the count of
\* generated diagrams, equal to the length of the list generate_all
\* returned, when that list is not empty, and a failure message when it is.
C12_BatchRunReportsCount ==
    BatchRunReturned
    => /\ log # <<>>
       /\ IF files # <<>>
          THEN /\ Last(log).tag = "Count"
               /\ Last(log).text = <<ToString(Len(files))>>
          ELSE Last(log).tag = "NoneGenerated"

\* the kind each method generates, as it is spelled in the file names
DiagramKind ==
    [generate_context_diagram |-> "context",
     generate_container_diagram |-> "container",
     generate_component_diagram |-> "component",
     generate_code_diagram |-> "code",
     generate_clean_architecture_diagram |-> "clean_architecture",
     generate_ports_component_diagram |-> "ports_component",
     generate_ports_integration_diagram |-> "ports_integration",
     generate_detailed_port_diagram |-> "detailed_ports",
     generate_clean_architecture_ports_diagram |-> "clean_arch_ports"]

\* <output dir>/samstraumr_<diagram-kind>_diagram.<format>
StatedFile(method, self) ==
    [dir |-> self.output_dir,
     name |-> <<"samstraumr_" \o DiagramKind[method] \o "_diagram", ".">>
              \o self.output_format]

\* the file a method of either class renders to when it is given the
\* directory and the format of the generator at hand
RenderTarget(method, self) ==
    LET probe == [cls |-> self.cls, output_format |-> self.output_format,
                  output_dir |-> self.output_dir, detail_level |-> MEDIUM]
    IN CHOOSE f \in CallMethod(method, probe, TRUE, RenderOk).written : TRUE

\* C13: a generate_* call whose render succeeded has written exactly the
\* file <output dir>/samstraumr_<kind>_diagram.<format> of its generator, and
\* the path it returned and logged is the path of that same file (the
\* renderer was given the path without its suffix, and the format apart);
\* for the directory and format of any generator the nine methods of the two
\* classes render to nine different file names; and a run of main() has left
\* one file for each call that succeeded.
C13_OneFilePerKind ==
    /\ [][ (GenerateStep /\ Last(attempts').outcome.ok)
           => LET a == Last(attempts')
                  f == StatedFile(a.method, generator)
              IN /\ fs_files' = fs_files \cup {f}
                 /\ ret' = PathStr(f)
                 /\ Last(log') = Msg("Generated", Last(log').label, PathStr(f))
                 /\ f.name[Len(f.name) - 3] = "."
                 /\ SubSeq(f.name, Len(f.name) - 2, Len(f.name)) \in FORMATS
         ]_vars
    /\ [](generator # NoGenerator
          => Cardinality({ RenderTarget(m, generator).name : m \in DOMAIN DiagramKind }) = 9)
    /\ [](mode = "main"
          => Cardinality(fs_files)
               = Cardinality({ i \in 1..Len(attempts) : attempts[i].outcome.ok }))

\* script A has rendered all five kinds as pdf into docs/diagrams: five files
C13_Witness ==
    /\ mode = "main" /\ script = "A" /\ BatchDone
    /\ generator.output_format = PDF
    /\ Cardinality(fs_files) = 5
    /\ [dir |-> <<"docs", "diagrams">>,
        name |-> <<"samstraumr_clean_architecture_diagram", ".", "p", "d", "f">>]
          \in fs_files
    /\ ret = <<"docs", "/", "diagrams", "/",
               "samstraumr_clean_architecture_diagram", ".", "p", "d", "f">>

\* the names of the nodes a specification declares
Declared(spec) == { spec.nodes[i].id : i \in 1..Len(spec.nodes) }

\* the edges of a specification that start or end at no declared node
Dangling(spec) ==
    { i \in 1..Len(spec.edges) :
         \/ spec.edges[i][1] \notin Declared(spec)
         \/ spec.edges[i][2] \notin Declared(spec) }

\* C14: whatever specification a generate_* method has constructed, of any
\* of the nine kinds and at the detail level of its generator, each of its
\* edges starts at a node and ends at a node that the same specification
\* declares.
C14_NoDanglingEdge ==
    built # NoSpec => Dangling(built) = {}

\* the detailed-port diagram of a generator at detail level high has been
\* constructed: its edges from the standard implementations are in place
C14_Witness ==
    /\ generator # NoGenerator
    /\ generator.cls = "PortInterfaceDiagramGenerator"
    /\ generator.detail_level = HIGH
    /\ attempts # <<>>
    /\ Last(attempts).method = "generate_detailed_port_diagram"
    /\ built = detailed_port_diagram_spec(HIGH)
    /\ \E i \in 1..Len(built.edges) : built.edges[i] = <<"notif_impl", "notification">>
    /\ "notif_impl" \in Declared(built)

\* the layers of the clean architecture diagram, the innermost first
LAYERS == <<"Core Domain", "Use Cases", "Interface Adapters", "Frameworks & Drivers">>

\* how far out the node of this name lies: the index in LAYERS of the
\* outermost cluster it is declared in
LayerOf(spec, id) ==
    LET n == CHOOSE i \in 1..Len(spec.nodes) : spec.nodes[i].id = id
    IN CHOOSE k \in 1..Len(LAYERS) : LAYERS[k] = spec.nodes[n].cluster[1]

\* the edges whose destination lies further out than their source
OutwardEdges(spec) ==
    { i \in 1..Len(spec.edges) :
         LayerOf(spec, spec.edges[i][2]) > LayerOf(spec, spec.edges[i][1]) }

\* C15: once generate_clean_architecture_diagram has constructed its
\* diagram, every edge of it points inward: the layer of its destination is
\* never further out than the layer of its source.
C15_ArrowsPointInward ==
    (/\ attempts # <<>>
     /\ Last(attempts).method = "generate_clean_architecture_diagram"
     /\ built = clean_architecture_diagram_spec)
    => OutwardEdges(built) = {}

\* C16: no call of a generate_* method or of generate_all, and no step of a
\* batch, changes the generator (its output_format, its output_dir, its
\* detail_level), whatever the call's outcome; a call that repeats the call
\* before it constructs the same specification and, when both renders
\* succeed, returns the same path and overwrites the same file; and any two
\* successful calls of one method return the same path.
C16_NoMutationAfterConstruction ==
    /\ [][ /\ generator' = generator
           /\ (GenerateStep /\ attempts # <<>>
               /\ Last(attempts').method = Last(attempts).method)
              => /\ diagrams_available => built' = built
                 /\ (Last(attempts').outcome.ok /\ Last(attempts).outcome.ok)
                    => /\ ret' = ret
                       /\ fs_files' = fs_files
         ]_vars
    /\ [](\A i, j \in 1..Len(attempts) :
             (/\ attempts[i].method = attempts[j].method
              /\ attempts[i].outcome.ok
              /\ attempts[j].outcome.ok)
             => attempts[i].ret = attempts[j].ret)

\* a client has called generate_detailed_port_diagram twice on a generator
\* at detail level high, and both renders succeeded: one file is there
C16_Witness ==
    /\ generator.cls = "PortInterfaceDiagramGenerator"
    /\ generator.detail_level = HIGH
    /\ generator.output_format = PDF
    /\ nops = 2
    /\ Len(attempts) = 2
    /\ \A i \in 1..2 : /\ attempts[i].method = "generate_detailed_port_diagram"
                       /\ attempts[i].outcome.ok
    /\ attempts[1].ret = ret
    /\ Cardinality(fs_files) = 1
    /\ built = detailed_port_diagram_spec(HIGH)

\* the number of kinds the stated batch of the generator's class has
BatchSize == Len(StatedOrder(generator.cls))

\* C17: while generate_all runs, the calls it has made so far are the first
\* kinds of the stated order, each called once and each with its outcome
\* known; a step of the batch makes exactly one call, of the kind that
\* follows the last one, whether the last one succeeded or failed (no kind
\* is tried again); generate_all returns only after 5 calls (script A) or 4
\* calls (script B) and makes no call as it returns; and, every render call
\* returning, a batch that has started does return.
C17_BatchSequentialSingleShot ==
    /\ [](pc = "batch"
          => /\ batchIdx <= BatchSize
             /\ batchIdx <= Len(attempts)
             /\ [i \in 1..batchIdx |-> BatchAttempts[i].method]
                   = SubSeq(StatedOrder(generator.cls), 1, batchIdx)
             /\ \A i \in 1..batchIdx :
                   BatchAttempts[i].outcome \in {RenderOk, RenderFailed, NotRendered})
    /\ [][ (pc = "batch")
           => \/ /\ pc' = "batch"
                 /\ batchIdx' = batchIdx + 1
                 /\ Len(attempts') = Len(attempts) + 1
                 /\ Last(attempts').method
                       = StatedOrder(generator.cls)[batchIdx + 1]
              \/ /\ pc' # "batch"
                 /\ batchIdx = BatchSize
                 /\ BatchSize = (IF script = "A" THEN 5 ELSE 4)
                 /\ attempts' = attempts
         ]_vars
    /\ (pc = "batch") ~> (pc # "batch" /\ batchIdx = BatchSize)

\* the batch of script A is done: the second kind failed, the third was
\* called next, and five calls were made in all
C17_Witness ==
    /\ BatchDone
    /\ script = "A" /\ mode = "main"
    /\ Len(attempts) = 5
    /\ ~attempts[2].outcome.ok
    /\ attempts[2].method = "generate_container_diagram"
    /\ attempts[3].method = "generate_component_diagram"
    /\ attempts[3].outcome.ok
    /\ Len(files) < 5

\* what the method constructs for a generator of the same class that writes
\* png files into the current directory at detail level low
ReferenceSpec(method, cls) ==
    CallMethod(method,
               [cls |-> cls, output_format |-> PNG, output_dir |-> <<>>,
                detail_level |-> LOW],
               TRUE, RenderOk).spec

\* C18: the specification a generate_* call constructs is the one the same
\* method constructs for the reference generator (png, current directory,
\* detail level low), whatever the format, the directory and the detail
\* level of the generator at hand and whether the render then succeeds or
\* fails; the one exception is generate_detailed_port_diagram on a generator
\* at detail level high.  So the content does not depend on format or
\* directory, depends on the detail level in the detailed-port diagram
\* only, and is the same there for low and medium.
C18_ContentIndependentOfConfiguration ==
    [][ (GenerateStep /\ diagrams_available)
        => LET m == Last(attempts').method
           IN \/ built' = ReferenceSpec(m, generator.cls)
              \/ /\ m = "generate_detailed_port_diagram"
                 /\ generator.detail_level = HIGH
      ]_vars

\* script B has constructed the detailed-port diagram for pdf files in
\* docs/diagrams at detail level medium: it is the diagram of level low
C18_Witness ==
    /\ script = "B"
    /\ diagrams_available
    /\ generator # NoGenerator
    /\ generator.detail_level = MEDIUM
    /\ generator.output_format = PDF
    /\ generator.output_dir = <<"docs", "diagrams">>
    /\ attempts # <<>>
    /\ Last(attempts).method = "generate_detailed_port_diagram"
    /\ built = detailed_port_diagram_spec(LOW)
    /\ built # detailed_port_diagram_spec(HIGH)

\* C19: a generator that exists has one of png, svg, pdf, in lower case, as
\* its output_format and, when it is a PortInterfaceDiagramGenerator, one of
\* low, medium, high as its detail_level; and a constructor that returns
\* after it was given a format (a detail level) whose lower-cased form is in
\* the domain prints no warning about it and stores that lower-cased form,
\* not the default.
C19_StoredValuesNormalized ==
    /\ [](generator # NoGenerator
          => /\ generator.output_format \in {PNG, SVG, PDF}
             /\ generator.output_format = Lower(generator.output_format)
             /\ generator.cls = "PortInterfaceDiagramGenerator"
                => /\ generator.detail_level \in {LOW, MEDIUM, HIGH}
                   /\ generator.detail_level = Lower(generator.detail_level))
    /\ [][ (ConstructStep /\ raised' = "None")
           => /\ Lower(request'.output_format) \in {PNG, SVG, PDF}
                 => /\ generator'.output_format = Lower(request'.output_format)
                    /\ CountTag(Added, "UnsupportedFormat") = 0
              /\ (/\ request'.cls = "PortInterfaceDiagramGenerator"
                  /\ Lower(request'.detail_level) \in {LOW, MEDIUM, HIGH})
                 => /\ generator'.detail_level = Lower(request'.detail_level)
                    /\ CountTag(Added, "UnsupportedDetail") = 0
         ]_vars

\* a client asked for format "Pdf" and detail level "High": the generator
\* holds "pdf" and "high", neither is the default, and nothing was printed
C19_Witness ==
    /\ mode = "api" /\ nops = 1
    /\ diagrams_available
    /\ request.cls = "PortInterfaceDiagramGenerator"
    /\ request.output_format = <<"P","d","f">>
    /\ request.detail_level = <<"H","i","g","h">>
    /\ generator # NoGenerator
    /\ generator.output_format = <<"p","d","f">>
    /\ generator.detail_level = <<"h","i","g","h">>
    /\ log = <<>>

\* main() of script A has come to its dispatch, or further
PastConstructionA ==
    /\ script = "A" /\ mode = "main"
    /\ \/ pc \in {"dispatch", "batch", "return"}
       \/ calls # <<>>
       \/ attempts # <<>>
       \/ CountTag(log, "Redirect") > 0

\* C20: when main() of script A has come to the dispatch on --type, or has
\* called a diagram method, or has printed the redirect of --type port, its
\* generator exists, holds a format of the domain and the directory of the
\* command line (docs/diagrams when --dir is absent or empty), and that
\* directory exists with its ancestors; and the step that calls a method or
\* prints the redirect starts in such a state and leaves generator and
\* directories as they are.
C20_ConstructedBeforeDispatch ==
    /\ [](PastConstructionA
          => /\ generator # NoGenerator
             /\ generator.output_format \in {PNG, SVG, PDF}
             /\ generator.output_format = args.output
             /\ generator.output_dir
                   = (IF argv.dir \in {<<>>, <<EmptyStr>>}
                      THEN <<"docs", "diagrams">>
                      ELSE Path(argv.dir[1]))
             /\ DirExists(generator.output_dir, fs_dirs)
             /\ Prefixes(generator.output_dir) \subseteq fs_dirs)
    /\ [][ (/\ script = "A" /\ mode = "main"
            /\ \/ GenerateStep
               \/ CountTag(log', "Redirect") > CountTag(log, "Redirect"))
           => /\ PastConstructionA
              /\ generator' = generator
              /\ fs_dirs' = fs_dirs
         ]_vars

\* script A was run with --type port and --dir out, a directory that did
\* not exist: it exists when the redirect has been printed, and no diagram
\* method was called
C20_Witness ==
    /\ script = "A" /\ mode = "main"
    /\ argv.type = <<"port">>
    /\ argv.dir = << <<"out">> >>
    /\ argv.output = <<SVG>>
    /\ CountTag(log, "Redirect") = 1
    /\ attempts = <<>>
    /\ generator.output_dir = <<"out">>
    /\ generator.output_format = SVG
    /\ <<"out">> \in fs_dirs
    /\ fs_files = {}

====
